---------------------------- MODULE Spec2Model ----------------------------
(***************************************************************************)
(* Model of src/src/dataCollection.py: the paginated, chunked retrieval    *)
(* loop  locations -> sensors -> time chunks -> measurement pages.         *)
(*                                                                         *)
(* Time.  A datetime is an integer number of ticks; TicksPerSec ticks make *)
(* a second (the code's datetimes carry microseconds) and SecPerDay        *)
(* seconds make a day.  iso_dt formats to whole seconds, so a formatted    *)
(* timestamp is modelled as the number of whole seconds it names.          *)
(*                                                                         *)
(* Remote service.  Every response is drawn where the request is issued.   *)
(* A descriptor field that the code reads once, later, (a location's       *)
(* "sensors") is drawn where the code reads it: the descriptor is          *)
(* immutable, so this is the same set of runs.                             *)
(***************************************************************************)
EXTENDS Integers, Sequences, FiniteSets, TLC

\* ------------------------------------------------------------------ bounds
\* Resolution of the clock: ticks per second (the code: 10^6 microseconds).
TicksPerSec == 2
\* Seconds per day (the code: 86400).
SecPerDay == 2
\* Latest instant, in ticks, drawn for start_dt / end_dt of chunk_ranges.
MaxT == 9
\* Largest chunk size, in days, drawn for chunk_ranges.
MaxDays == 2
\* find_locations: the "limit" it requests (the code: 100).
LocLimit == 2
\* Location identifiers the service may return.
MaxLocId == 3
\* Locations the service serves in all to find_locations on its own.
MaxLocs == 4
\* fetch_sensor_measurements: PAGE_LIMIT (the code: 1000).
PAGE_LIMIT == 2
\* Sensor identifiers the service may return.
MaxSensorId == 2
\* Records the service serves in all to fetch_sensor_measurements on its own.
MaxRecs == 5
\* main: CHUNK_DAYS (the code: 30) and the days main looks back (the code:
\* 365 * 2).
CHUNK_DAYS == 2
LookbackDays == 3
\* Sensors in one sensor list.
MaxSensors == 2
\* Locations and records the service serves in all to one run of main.
MainLocs == 2
MainRecs == 2
\* Location identifiers the service may return to one run of main.
MainLocId == 2
MaxPage == 4

DayTicks == TicksPerSec * SecPerDay
\* chunk_ranges is a generator over an unbounded loop: the model stops
\* drawing chunks after MaxChunks of them (never reached when days >= 1).
MaxChunks == MaxT + 2
\* Chunk sizes drawn: every small integer, the non-positive ones included
\* (chunk_ranges validates nothing).
DaysDomain == (0 - 1) .. MaxDays

Min(a, b) == IF a <= b THEN a ELSE b

VARIABLES
    pc,         \* which component runs / where main is
    start_dt,   \* chunk_ranges: argument start_dt (ticks)
    end_dt,     \* chunk_ranges: argument end_dt (ticks)
    days,       \* chunk_ranges: argument days
    cur,        \* chunk_ranges: local cur (ticks)
    chunks,     \* the (chunk_start, chunk_end) pairs yielded so far, formatted
    locPage,    \* find_locations: params["page"]
    all_locs,   \* find_locations: all_locs
    locResps,   \* the responses to the location page requests, in order
    locsLeft,   \* locations the service may still serve in this run
    log,        \* every request issued and every sleep, in order
    unit,       \* fetch_sensor_measurements: the call's sensor and position
    page,       \* fetch_sensor_measurements: page
    results,    \* fetch_sensor_measurements: results of the current page
    ri,         \* fetch_sensor_measurements: index of the record being yielded
    emitted,    \* the records the current call has yielded
    fetchResps, \* the responses to the page requests of the current call
    recsLeft,   \* records the service may still serve in this run
    now,        \* main: now (ticks)
    streaming,  \* main: whether OUTPUT_NDJSON is set
    li,         \* main: index of loc in locations
    emb,        \* main: the "sensors" field of loc, as read
    nsensors,   \* main: len(sensors)
    si,         \* main: index of s in sensors
    sensor,     \* main: s, the entry of sensors being processed
    resolved,   \* how sensor resolution went for each location so far
    rows,       \* main: rows
    ndjson,     \* the lines written to the NDJSON file
    ndjson_fh,  \* main: ndjson_fh ("none", "open", "closed")
    csv         \* whether the CSV file was written

chunkVars == <<start_dt, end_dt, days, cur, chunks>>
locVars == <<locPage, all_locs, locResps, locsLeft>>
fetchVars == <<unit, page, results, ri, emitted, fetchResps, recsLeft>>
mainVars == <<now, streaming, li, emb, nsensors, si, sensor, resolved>>
outVars == <<rows, ndjson, ndjson_fh, csv>>
vars == <<pc, start_dt, end_dt, days, cur, chunks, locPage, all_locs, locResps,
          locsLeft, log, unit, page, results, ri, emitted, fetchResps, recsLeft,
          now, streaming, li, emb, nsensors, si, sensor, resolved, rows,
          ndjson,
          ndjson_fh, csv>>

\* ----------------------------------------------------------- pure helpers
\* timedelta(days=d), in ticks.
timedelta(d) == d * DayTicks

\* iso_dt: strftime("%Y-%m-%dT%H:%M:%SZ") keeps whole seconds and drops the
\* sub-second part.  The result is the count of whole seconds (floor).
iso_dt(dt) == dt \div TicksPerSec

\* The instant (ticks) that a formatted timestamp names.
Instant(s) == s * TicksPerSec

\* ----------------------------------------------------------- chunk_ranges
\* while cur < end_dt
chunk_more_Mutant(c, e) == c <= e
chunk_more(c, e) == c < e

\* nxt = min(end_dt, cur + timedelta(days=days))
chunk_nxt_Mutant(c, e, d) == c + timedelta(d)
chunk_nxt(c, e, d) == Min(e, c + timedelta(d))

\* cur = nxt
chunk_advance_Mutant(c, n) == c
chunk_advance(c, n) == n

\* One resumption of the generator that ends in a yield.
chunk_ranges_yield ==
    /\ chunk_more(cur, end_dt)
    /\ Len(chunks) < MaxChunks
    /\ LET nxt == chunk_nxt(cur, end_dt, days)
       IN  /\ chunks' = Append(chunks, <<iso_dt(cur), iso_dt(nxt)>>)
           /\ cur' = chunk_advance(cur, nxt)
    /\ UNCHANGED <<start_dt, end_dt, days>>

\* One resumption of the generator that ends in StopIteration.
chunk_ranges_stop ==
    /\ ~chunk_more(cur, end_dt)
    /\ UNCHANGED chunkVars

\* chunk_ranges not called.
ChunkIdle ==
    /\ start_dt = 0
    /\ end_dt = 0
    /\ days = 1
    /\ cur = 0
    /\ chunks = <<>>

\* ------------------------------------------------------------ the log
\* A request: endpoint, the position of the unit it belongs to (index of
\* the location in the list, of the sensor in its list, of the chunk; 0
\* where there is none), the location identifier where the URL carries
\* one, the page number.
Req(ep, l, s, c, lid, p) ==
    [ev |-> "get", ep |-> ep, li |-> l, si |-> s, ci |-> c,
     loc_id |-> lid, page |-> p]

\* A sleep of SLEEP seconds.
Sleep ==
    [ev |-> "sleep", ep |-> "none", li |-> 0, si |-> 0, ci |-> 0,
     loc_id |-> 0, page |-> 0]

\* time.sleep(SLEEP), after the page counter is advanced
time_sleep_Mutant(l) == l
time_sleep(l) == Append(l, Sleep)

\* All sequences over S of length at most n.
SeqsUpTo(S, n) == UNION {[1 .. k -> S] : k \in 0 .. n}

\* --------------------------------------------------------- find_locations
\* An entry of a "results" array of the locations endpoint: a descriptor
\* (an object with an "id") or something that is no object.
LocDescs(maxId) ==
    {[isdict |-> TRUE, id |-> i, name |-> i] : i \in 1 .. maxId} \cup
    {[isdict |-> FALSE, id |-> 0, name |-> 0]}

\* What a location page request can come to: an exception (transport,
\* raise_for_status, a body that is no JSON) or a results array of at most
\* "limit" entries, within what the service still has to serve.
LocResponses(maxId) ==
    {[status |-> "error", results |-> <<>>]} \cup
    {[status |-> "ok", results |-> r] :
        r \in SeqsUpTo(LocDescs(maxId), Min(LocLimit, locsLeft))}

\* all_locs.extend(results)
loc_extend_Mutant(all, res) ==
    all \o SelectSeq(res, LAMBDA d : \A i \in 1 .. Len(all) : all[i] # d)
loc_extend(all, res) == all \o res

\* len(results) < params["limit"]
loc_last_page_Mutant(res) == Len(res) <= LocLimit
loc_last_page(res) == Len(res) < LocLimit

\* One turn of the while loop of find_locations: the request of page
\* locPage and what follows it, up to the next request, the return
\* (pc = onReturn) or the exception leaving the function (pc = onRaise).
find_locations_turn(maxId, onReturn, onRaise) ==
    \E resp \in LocResponses(maxId) :
        LET res == resp.results
            get == Req("locations", 0, 0, 0, 0, locPage)
        IN  /\ locResps' = Append(locResps, resp)
            /\ locsLeft' = locsLeft - Len(res)
            /\ IF resp.status = "error"
               THEN /\ pc' = onRaise
                    /\ log' = Append(log, get)
                    /\ UNCHANGED <<locPage, all_locs>>
               ELSE IF res = <<>>
               THEN /\ pc' = onReturn
                    /\ log' = Append(log, get)
                    /\ UNCHANGED <<locPage, all_locs>>
               ELSE /\ all_locs' = loc_extend(all_locs, res)
                    /\ IF loc_last_page(res)
                       THEN /\ pc' = onReturn
                            /\ log' = Append(log, get)
                            /\ UNCHANGED locPage
                       ELSE /\ pc' = pc
                            /\ locPage' = locPage + 1
                            /\ log' = time_sleep(Append(log, get))

\* find_locations before its first request.
LocStart(budget) ==
    /\ locPage = 1
    /\ all_locs = <<>>
    /\ locResps = <<>>
    /\ locsLeft = budget

\* find_locations not called.
LocIdle == LocStart(0)

\* ------------------------------------------------ fetch_sensor_measurements
SensorIds == 1 .. MaxSensorId

\* What JSON holds under a key of an object: the key is absent, its value
\* is null, or it is a value.
FieldValues == {"absent", "null", "v"}

\* dict.get(key) of a value as read: None for an absent key and for null.
dict_get(v) == IF v \in {"absent", "null"} THEN "None" ELSE v

\* The "coordinates" of a raw record: the key is absent, null, a value that
\* is no object ("scalar"), or an object with its two keys.
Coordinates ==
    {[kind |-> k, latitude |-> "absent", longitude |-> "absent"] :
        k \in {"absent", "null", "scalar"}} \cup
    {[kind |-> "dict", latitude |-> a, longitude |-> b] :
        a \in FieldValues, b \in FieldValues}

\* The "date" of a raw record, likewise.
Dates ==
    {[kind |-> k, utc |-> "absent", local |-> "absent"] :
        k \in {"absent", "null", "scalar"}} \cup
    {[kind |-> "dict", utc |-> a, local |-> b] :
        a \in FieldValues, b \in FieldValues}

\* The keys safe_extract reads with rec.get alone.
SimpleFields ==
    {"location", "parameter", "value", "unit", "attribution", "sourceName"}

\* An entry of a "results" array of measurements: null, a value that is no
\* object ("scalar": a string, a number, a list), or an object with any
\* subset of the recognized keys and possibly other keys (extra).
NullRec ==
    [kind |-> "null", extra |-> FALSE, fields |-> [k \in SimpleFields |-> "absent"],
     coordinates |-> [kind |-> "absent", latitude |-> "absent", longitude |-> "absent"],
     date |-> [kind |-> "absent", utc |-> "absent", local |-> "absent"]]
ScalarRec == [NullRec EXCEPT !.kind = "scalar"]
EmptyRec == [NullRec EXCEPT !.kind = "dict"]
OkRec ==
    [EmptyRec EXCEPT !.fields = [k \in SimpleFields |->
                                    IF k \in {"parameter", "value"} THEN "v" ELSE "absent"],
                     !.date = [kind |-> "dict", utc |-> "v", local |-> "absent"]]
RawRecords ==
    {[kind |-> "dict", extra |-> x, fields |-> f, coordinates |-> c, date |-> d] :
        x \in BOOLEAN, f \in [SimpleFields -> {"absent", "v"}],
        c \in Coordinates, d \in Dates}
    \cup {NullRec, ScalarRec}

\* The records the measurements endpoint serves in the runs of the fetcher
\* and of main: a well-formed one, an empty one and one that is no object.
RecKinds == {OkRec, EmptyRec, ScalarRec}

\* What a measurement page request can come to: an exception ("exc":
\* transport failure, timeout, or a 200 whose body is no JSON), a 404, some
\* other status that is not 200 ("500"), or a 200 with a results array of
\* at most PAGE_LIMIT records, within what the service still has to serve.
MeasResponses ==
    {[status |-> st, results |-> <<>>] : st \in {"exc", "404", "500"}} \cup
    {[status |-> "200", results |-> r] :
        r \in SeqsUpTo(RecKinds, Min(PAGE_LIMIT, recsLeft))}

\* What the fetcher does with a response: requests.get raising leaves the
\* generator ("raise"); status 404 ends it ("return"); any other status
\* that is not 200 ends it ("return"); a 200 is read ("parse").
fetch_outcome_Raise404(status) ==
    IF status = "exc" \/ status = "404" THEN "raise"
    ELSE IF status # "200" THEN "return"
    ELSE "parse"
fetch_outcome_RaiseForStatus(status) ==
    IF status # "200" THEN "raise" ELSE "parse"
fetch_outcome(status) ==
    IF status = "exc" THEN "raise"
    ELSE IF status = "404" THEN "return"
    ELSE IF status # "200" THEN "return"
    ELSE "parse"

\* len(results) < PAGE_LIMIT
fetch_last_page_Mutant(res) == Len(res) <= PAGE_LIMIT
fetch_last_page(res) == Len(res) < PAGE_LIMIT

\* The call fetch_sensor_measurements(sensor_id, d_from, d_to) for the unit
\* u, before its first request.
FetchStart(u, budget) ==
    /\ unit = u
    /\ page = 1
    /\ results = <<>>
    /\ ri = 0
    /\ emitted = <<>>
    /\ fetchResps = <<>>
    /\ recsLeft = budget

NoUnit ==
    [li |-> 0, si |-> 0, ci |-> 0, loc_id |-> 0, sensor_id |-> 0,
     d_from |-> 0, d_to |-> 0]

\* fetch_sensor_measurements not called.
FetchIdle == FetchStart(NoUnit, 0)

\* The request of page `page` and what follows it, up to the first yield
\* of the page (pc = onYield), the end of the generator (pc = onReturn) or
\* the exception leaving it (pc = onRaise).
fetch_request(onYield, onReturn, onRaise) ==
    \E resp \in MeasResponses :
        /\ log' = Append(log, Req("measurements", unit.li, unit.si, unit.ci, 0, page))
        /\ fetchResps' = Append(fetchResps, resp)
        /\ recsLeft' = recsLeft - Len(resp.results)
        /\ UNCHANGED <<unit, page, emitted>>
        /\ IF fetch_outcome(resp.status) = "raise"
           THEN pc' = onRaise /\ UNCHANGED <<results, ri>>
           ELSE IF fetch_outcome(resp.status) = "return"
           THEN pc' = onReturn /\ UNCHANGED <<results, ri>>
           ELSE IF resp.results = <<>>
           THEN pc' = onReturn /\ UNCHANGED <<results, ri>>
           ELSE pc' = onYield /\ results' = resp.results /\ ri' = 1

\* The yield of results[ri] and, once the consumer asks for the next
\* record, what follows it: the next yield, the end of the generator or
\* the sleep before the next request (pc = onRequest).
fetch_yield(onRequest, onReturn) ==
    /\ emitted' = Append(emitted, results[ri])
    /\ UNCHANGED <<unit, results, fetchResps, recsLeft>>
    /\ IF ri < Len(results)
       THEN ri' = ri + 1 /\ pc' = pc /\ UNCHANGED <<page, log>>
       ELSE /\ UNCHANGED ri
            /\ IF fetch_last_page(results)
               THEN pc' = onReturn /\ UNCHANGED <<page, log>>
               ELSE /\ page' = page + 1
                    /\ log' = time_sleep(log)
                    /\ pc' = onRequest

\* -------------------------------------------------------------------- main
\* An entry of a sensor list: a descriptor (an object with an "id") or
\* something that is no object.
\* The names a parameter can have.
Names == {"pm25", "pm10", "o3"}

\* What a parameter descriptor holds under "name" or "display_name": the
\* key is absent, null, the empty string or a name.
NameValues == {"absent", "null", ""} \cup Names

\* The "parameter" of a sensor descriptor: the key is absent, null, a
\* string (str) or an object with "name" and "display_name".
NoParam == [kind |-> "absent", str |-> "", name |-> "absent", display_name |-> "absent"]
ParamDescs ==
    {[NoParam EXCEPT !.kind = k] : k \in {"absent", "null"}} \cup
    {[NoParam EXCEPT !.kind = "str", !.str = p] : p \in Names \cup {""}} \cup
    {[NoParam EXCEPT !.kind = "dict", !.name = n, !.display_name = d] :
        n \in NameValues, d \in NameValues}

\* bool(v) of what dict.get delivered
truthy(v) == v \notin {"None", ""}

\* sensor_param = (s.get("parameter") or {}); the name is
\* sensor_param.get("name") or sensor_param.get("display_name") of an
\* object, and sensor_param itself otherwise.
sensor_param_name_Mutant(pd) ==
    IF pd.kind = "str" /\ pd.str # "" THEN pd.str
    ELSE IF pd.kind = "dict" /\ truthy(dict_get(pd.display_name))
    THEN dict_get(pd.display_name)
    ELSE IF pd.kind = "dict" THEN dict_get(pd.name)
    ELSE "None"
sensor_param_name(pd) ==
    LET falsy == \/ pd.kind \in {"absent", "null"}
                 \/ pd.kind = "str" /\ pd.str = ""
                 \/ pd.kind = "dict" /\ pd.name = "absent" /\ pd.display_name = "absent"
        sensor_param == IF falsy THEN [NoParam EXCEPT !.kind = "dict"] ELSE pd
    IN  IF sensor_param.kind = "dict"
        THEN IF truthy(dict_get(sensor_param.name))
             THEN dict_get(sensor_param.name)
             ELSE dict_get(sensor_param.display_name)
        ELSE sensor_param.str

\* The parameter descriptor of sensor i in the runs of main: the first
\* sensor gives it as a string, the others as an object.
ParamOfSensor(i) ==
    IF i = 1 THEN [NoParam EXCEPT !.kind = "str", !.str = "pm25"]
    ELSE [NoParam EXCEPT !.kind = "dict", !.name = "pm10"]

SensorDescs ==
    {[isdict |-> TRUE, id |-> i, parameter |-> ParamOfSensor(i)] : i \in SensorIds}
    \cup {[isdict |-> FALSE, id |-> 0, parameter |-> NoParam]}

NoSensor == [isdict |-> FALSE, id |-> 0, parameter |-> NoParam]

\* A "sensors" / "results" value: the key is absent, null, or a list of
\* len entries (an entry is drawn where the for loop reads it).
NoList == [kind |-> "absent", len |-> 0]
ListValues ==
    {[kind |-> k, len |-> 0] : k \in {"absent", "null"}} \cup
    {[kind |-> "list", len |-> n] : n \in 0 .. MaxSensors}

\* What the "sensors for location" request can come to: an exception
\* (transport, raise_for_status, a body that is no JSON object) or a body
\* with its "results".
FallbackResponses ==
    {[status |-> "error", value |-> NoList]} \cup
    {[status |-> "ok", value |-> v] : v \in ListValues}

\* dict.get(key, []) of a value as read: the default for an absent key.
get_list(v) == IF v.kind = "absent" THEN [kind |-> "list", len |-> 0] ELSE v

\* not sensors
not_sensors_Mutant(v) == v.kind # "list"
not_sensors(v) == v.kind # "list" \/ v.len = 0

\* Where an exception of the fallback request goes: to the except clause
\* of the try around it.
on_fallback_error_Mutant == "crashed_fallback"
on_fallback_error == "fallback_except"

\* Where an exception leaving fetch_sensor_measurements goes: to the
\* except clause of the try around the for loop over it.
on_fetch_raise_Uncaught == "crashed_fetch"
on_fetch_raise_Retry == "request"
on_fetch_raise == "fetch_except"

\* not rec: null, or an object without any key
not_rec(rec) ==
    \/ rec.kind = "null"
    \/ /\ rec.kind = "dict"
       /\ ~rec.extra
       /\ \A k \in SimpleFields : rec.fields[k] = "absent"
       /\ rec.coordinates.kind = "absent"
       /\ rec.date.kind = "absent"

\* rec.get("coordinates") or {}, rec.get("date") or {}: an absent key, null
\* and an empty object come to the empty object
EmptyCoordinates == [kind |-> "dict", latitude |-> "absent", longitude |-> "absent"]
EmptyDate == [kind |-> "dict", utc |-> "absent", local |-> "absent"]
sub_or_empty_Mutant(sub, empty) == sub
sub_or_empty(sub, empty) ==
    IF sub.kind \in {"absent", "null"} THEN empty ELSE sub

\* What safe_extract returns ("row", with the row), or that it returns None
\* or raises (rec.get, coords.get or date.get of a value that is no object).
NoRow ==
    [location |-> "None", parameter |-> "None", value |-> "None", unit |-> "None",
     date_utc |-> "None", date_local |-> "None", latitude |-> "None",
     longitude |-> "None", attribution |-> "None", sourceName |-> "None",
     raw |-> NullRec]
safe_extract(rec) ==
    LET coords == sub_or_empty(rec.coordinates, EmptyCoordinates)
        date == sub_or_empty(rec.date, EmptyDate)
    IN  IF not_rec(rec) THEN [kind |-> "None", row |-> NoRow]
        ELSE IF rec.kind # "dict" \/ coords.kind # "dict" \/ date.kind # "dict"
        THEN [kind |-> "raise", row |-> NoRow]
        ELSE [kind |-> "row",
              row |-> [location |-> dict_get(rec.fields["location"]),
                       parameter |-> dict_get(rec.fields["parameter"]),
                       value |-> dict_get(rec.fields["value"]),
                       unit |-> dict_get(rec.fields["unit"]),
                       date_utc |-> dict_get(date.utc),
                       date_local |-> dict_get(date.local),
                       latitude |-> dict_get(coords.latitude),
                       longitude |-> dict_get(coords.longitude),
                       attribution |-> dict_get(rec.fields["attribution"]),
                       sourceName |-> dict_get(rec.fields["sourceName"]),
                       raw |-> rec]]

\* main is not running.
MainIdle ==
    /\ now = 0
    /\ streaming = FALSE
    /\ li = 0
    /\ emb = NoList
    /\ nsensors = 0
    /\ si = 0
    /\ sensor = NoSensor
    /\ resolved = <<>>
    /\ rows = <<>>
    /\ ndjson = <<>>
    /\ ndjson_fh = "none"
    /\ csv = FALSE

\* now = datetime.now(timezone.utc): an instant between two seconds.
Now == timedelta(LookbackDays) + 1

Init ==
    /\ pc = "discover"
    /\ now = Now
    /\ streaming \in BOOLEAN
    /\ li = 0
    /\ emb = NoList
    /\ nsensors = 0
    /\ si = 0
    /\ sensor = NoSensor
    /\ resolved = <<>>
    /\ rows = <<>>
    /\ ndjson = <<>>
    /\ ndjson_fh = "none"
    /\ csv = FALSE
    /\ LocStart(MainLocs)
    /\ FetchStart(NoUnit, MainRecs)
    /\ ChunkIdle
    /\ log = <<>>

\* locations = find_locations(): one turn of its loop.  An exception
\* leaves main.
Discover ==
    /\ pc = "discover"
    /\ find_locations_turn(MainLocId, "open", "crashed_discovery")
    /\ UNCHANGED <<chunkVars, fetchVars, mainVars, outVars>>

\* rows = []; ndjson_fh = open(OUTPUT_NDJSON, "a") if OUTPUT_NDJSON
OpenOutput ==
    /\ pc = "open"
    /\ ndjson_fh' = IF streaming THEN "open" ELSE "none"
    /\ li' = 1
    /\ pc' = "loc"
    /\ UNCHANGED <<chunkVars, locVars, fetchVars, log, now, streaming, emb,
                   nsensors, si, sensor, resolved, rows, ndjson, csv>>

\* for loc in locations: loc.get("id"), loc.get("sensors", []), not sensors
NextLocation ==
    /\ pc = "loc"
    /\ li <= Len(all_locs)
    /\ IF ~all_locs[li].isdict
       THEN /\ pc' = "crashed_descriptor"
            /\ UNCHANGED <<emb, nsensors, si, resolved>>
       ELSE \E v \in ListValues :
            /\ emb' = v
            /\ IF not_sensors(get_list(v))
               THEN /\ pc' = "fallback"
                    /\ UNCHANGED <<nsensors, si, resolved>>
               ELSE /\ pc' = "sensor"
                    /\ nsensors' = v.len
                    /\ si' = 1
                    /\ resolved' = Append(resolved,
                            [fallback |-> FALSE, failed |-> FALSE, n |-> v.len])
    /\ UNCHANGED <<chunkVars, locVars, fetchVars, log, now, streaming, li, sensor,
                   outVars>>

\* the for loop over locations is exhausted
LocationsDone ==
    /\ pc = "loc"
    /\ li > Len(all_locs)
    /\ pc' = "final"
    /\ UNCHANGED <<chunkVars, locVars, fetchVars, log, mainVars, outVars>>

\* the fallback request for the sensors of loc, in its try
Fallback ==
    /\ pc = "fallback"
    /\ \E resp \in FallbackResponses :
        /\ log' = Append(log, Req("sensors", li, 0, 0, all_locs[li].id, 0))
        /\ IF resp.status = "error"
           THEN /\ pc' = on_fallback_error
                /\ UNCHANGED <<emb, nsensors, si, resolved>>
           ELSE IF get_list(resp.value).kind = "null"
           THEN \* len(sensors) of None
                /\ pc' = "crashed_descriptor"
                /\ UNCHANGED <<emb, nsensors, si, resolved>>
           ELSE /\ pc' = "sensor"
                /\ emb' = NoList
                /\ nsensors' = get_list(resp.value).len
                /\ si' = 1
                /\ resolved' = Append(resolved,
                        [fallback |-> TRUE, failed |-> FALSE,
                         n |-> get_list(resp.value).len])
    /\ UNCHANGED <<chunkVars, locVars, fetchVars, now, streaming, li, sensor,
                   outVars>>

\* except Exception after the fallback request: sensors = []
FallbackExcept ==
    /\ pc = "fallback_except"
    /\ emb' = NoList
    /\ nsensors' = 0
    /\ si' = 1
    /\ resolved' = Append(resolved, [fallback |-> TRUE, failed |-> TRUE, n |-> 0])
    /\ pc' = "sensor"
    /\ UNCHANGED <<chunkVars, locVars, fetchVars, log, now, streaming, li, sensor,
                   outVars>>

\* for s in sensors: s.get("id"), and the call chunk_ranges(two_years_ago, now)
NextSensor ==
    /\ pc = "sensor"
    /\ si <= nsensors
    /\ \E d \in SensorDescs :
        /\ sensor' = d
        /\ IF ~d.isdict
           THEN pc' = "crashed_descriptor" /\ UNCHANGED chunkVars
           ELSE /\ start_dt' = now - timedelta(LookbackDays)
                /\ end_dt' = now
                /\ days' = CHUNK_DAYS
                /\ cur' = now - timedelta(LookbackDays)
                /\ chunks' = <<>>
                /\ pc' = "chunk"
    /\ UNCHANGED <<locVars, fetchVars, log, now, streaming, li, emb, nsensors,
                   si, resolved, outVars>>

\* the for loop over sensors is exhausted: next location (the locals of
\* the finished iteration are dead and are cleared)
SensorsDone ==
    /\ pc = "sensor"
    /\ si > nsensors
    /\ li' = li + 1
    /\ emb' = NoList
    /\ nsensors' = 0
    /\ si' = 0
    /\ sensor' = NoSensor
    /\ pc' = "loc"
    /\ UNCHANGED <<chunkVars, locVars, fetchVars, log, now, streaming,
                   resolved, outVars>>

\* for d_from, d_to in chunk_ranges(...): the next chunk, and the call
\* fetch_sensor_measurements(sensor_id, d_from, d_to)
NextChunk ==
    /\ pc = "chunk"
    /\ chunk_ranges_yield
    /\ unit' = [li |-> li, si |-> si, ci |-> Len(chunks) + 1,
                loc_id |-> all_locs[li].id, sensor_id |-> sensor.id,
                d_from |-> chunks'[Len(chunks) + 1][1],
                d_to |-> chunks'[Len(chunks) + 1][2]]
    /\ page' = 1
    /\ results' = <<>>
    /\ ri' = 0
    /\ emitted' = <<>>
    /\ fetchResps' = <<>>
    /\ pc' = "request"
    /\ UNCHANGED <<locVars, recsLeft, log, mainVars, outVars>>

\* the for loop over chunks is exhausted: next sensor (the last fetcher
\* is dead and is cleared)
ChunksDone ==
    /\ pc = "chunk"
    /\ chunk_ranges_stop
    /\ si' = si + 1
    /\ unit' = NoUnit
    /\ page' = 1
    /\ results' = <<>>
    /\ ri' = 0
    /\ emitted' = <<>>
    /\ fetchResps' = <<>>
    /\ pc' = "sensor"
    /\ UNCHANGED <<locVars, recsLeft, log, now, streaming, li, emb, nsensors,
                   sensor, resolved, outVars>>

\* the fetcher's page request, inside main's try
Request ==
    /\ pc = "request"
    /\ fetch_request("record", "chunk", on_fetch_raise)
    /\ UNCHANGED <<chunkVars, locVars, mainVars, outVars>>

\* except Exception after the for loop over the fetcher: continue
FetchExcept ==
    /\ pc = "fetch_except"
    /\ pc' = "chunk"
    /\ UNCHANGED <<chunkVars, locVars, fetchVars, log, mainVars, outVars>>

\* out = {"location_id": ..., "location_name": ..., "sensor_id": ...,
\* "sensor_parameter": ..., **norm}: the keys of norm win over the four
\* before them
out_row_Mutant(loc, sen, norm) ==
    norm @@ [location_id |-> loc.id, location_name |-> loc.name,
             sensor_id |-> sen.id, sensor_parameter |-> norm.parameter]
out_row(loc, sen, norm) ==
    norm @@ [location_id |-> loc.id, location_name |-> loc.name,
             sensor_id |-> sen.id,
             sensor_parameter |-> sensor_param_name(sen.parameter)]

\* The row built from the record the fetcher yields.
OutRow == out_row(all_locs[li], sensor, safe_extract(results[ri]).row)

\* Where an exception raised in the body of the for loop over the records
\* goes: to the except clause of the try in that body, which continues
\* with the next record.
on_record_raise_Mutant == "propagate"
on_record_raise == "continue"

\* if ndjson_fh: an open file is true, None is not
to_ndjson_Mutant(fh) == FALSE
to_ndjson(fh) == fh # "none"

\* rows.append(out)
rows_append_Mutant(rs, out) == <<out>>
rows_append(rs, out) == Append(rs, out)

\* ndjson_fh.write(json.dumps(out, default=str) + "\n"): one more line
ndjson_write(lines, out) == Append(lines, out)

\* the body of the for loop over the fetcher's records, in its try / except
Record ==
    /\ pc = "record"
    /\ IF safe_extract(results[ri]).kind = "raise" /\ on_record_raise # "continue"
       THEN /\ pc' = on_fetch_raise
            /\ emitted' = Append(emitted, results[ri])
            /\ UNCHANGED <<unit, page, results, ri, fetchResps, recsLeft, log,
                           rows, ndjson>>
       ELSE /\ fetch_yield("request", "chunk")
            /\ IF safe_extract(results[ri]).kind = "row"
               THEN IF to_ndjson(ndjson_fh)
                    THEN ndjson' = ndjson_write(ndjson, OutRow) /\ UNCHANGED rows
                    ELSE rows' = rows_append(rows, OutRow) /\ UNCHANGED ndjson
               ELSE UNCHANGED <<rows, ndjson>>
    /\ UNCHANGED <<chunkVars, locVars, mainVars, ndjson_fh, csv>>

\* if not rows and not OUTPUT_NDJSON: return; if rows: df.to_csv(OUTPUT_CSV)
write_csv_Mutant(rs, ndjson_set) == TRUE
write_csv(rs, ndjson_set) ==
    IF rs = <<>> /\ ~ndjson_set THEN FALSE ELSE rs # <<>>

\* after the loops: close the NDJSON file, write the CSV file if rows
Final ==
    /\ pc = "final"
    /\ ndjson_fh' = IF ndjson_fh = "open" THEN "closed" ELSE ndjson_fh
    /\ csv' = write_csv(rows, streaming)
    /\ pc' = "done"
    /\ UNCHANGED <<chunkVars, locVars, fetchVars, log, mainVars, rows, ndjson>>

Next ==
    \/ Discover
    \/ OpenOutput
    \/ NextLocation
    \/ LocationsDone
    \/ Fallback
    \/ FallbackExcept
    \/ NextSensor
    \/ SensorsDone
    \/ NextChunk
    \/ ChunksDone
    \/ Request
    \/ FetchExcept
    \/ Record
    \/ Final

Spec == Init /\ [][Next]_vars /\ WF_vars(Next)

\* ---------------------------------------------- chunk_ranges on its own
ChunkInit ==
    /\ pc = "chunks"
    /\ start_dt \in 0 .. MaxT
    /\ end_dt \in 0 .. MaxT
    /\ days \in DaysDomain
    /\ cur = start_dt
    /\ chunks = <<>>
    /\ LocIdle
    /\ FetchIdle
    /\ MainIdle
    /\ log = <<>>

ChunkYield ==
    /\ pc = "chunks"
    /\ chunk_ranges_yield
    /\ pc' = "chunks"
    /\ UNCHANGED <<locVars, fetchVars, mainVars, outVars, log>>

ChunkStop ==
    /\ pc = "chunks"
    /\ chunk_ranges_stop
    /\ pc' = "chunks_done"
    /\ UNCHANGED <<locVars, fetchVars, mainVars, outVars, log>>

ChunkNext == ChunkYield \/ ChunkStop

ChunkSpec == ChunkInit /\ [][ChunkNext]_vars /\ WF_vars(ChunkNext)

\* -------------------------------------------- find_locations on its own
LocInit ==
    /\ pc = "locs"
    /\ LocStart(MaxLocs)
    /\ log = <<>>
    /\ ChunkIdle
    /\ FetchIdle
    /\ MainIdle

LocTurn ==
    /\ pc = "locs"
    /\ find_locations_turn(MaxLocId, "locs_returned", "locs_raised")
    /\ UNCHANGED <<chunkVars, fetchVars, mainVars, outVars>>

LocNext == LocTurn

LocSpec == LocInit /\ [][LocNext]_vars /\ WF_vars(LocNext)

\* ------------------------------------ fetch_sensor_measurements on its own
FetchInit ==
    /\ pc = "fetch"
    /\ \E sid \in SensorIds :
        FetchStart([NoUnit EXCEPT !.sensor_id = sid], MaxRecs)
    /\ log = <<>>
    /\ ChunkIdle
    /\ LocIdle
    /\ MainIdle

FetchRequest ==
    /\ pc = "fetch"
    /\ fetch_request("fetch_yield", "fetch_returned", "fetch_raised")
    /\ UNCHANGED <<chunkVars, locVars, mainVars, outVars>>

FetchYield ==
    /\ pc = "fetch_yield"
    /\ fetch_yield("fetch", "fetch_returned")
    /\ UNCHANGED <<chunkVars, locVars, mainVars, outVars>>

FetchNext == FetchRequest \/ FetchYield

FetchSpec == FetchInit /\ [][FetchNext]_vars /\ WF_vars(FetchNext)

\* --------------- fetch_sensor_measurements against an endless service
\* The service never runs out of records: whatever the page number, a
\* request can come to an exception, a 404, another status or a 200 with
\* up to PAGE_LIMIT records.  To keep the states finite the histories are
\* not kept (fetchResps holds the latest response only, log and emitted
\* stay empty) and the page counter stops counting at MaxPage.
EndlessResponses ==
    {[status |-> st, results |-> <<>>] : st \in {"exc", "404", "500"}} \cup
    {[status |-> "200", results |-> r] : r \in SeqsUpTo(RecKinds, PAGE_LIMIT)}

PagingInit ==
    /\ pc = "fetch"
    /\ \E sid \in SensorIds : FetchStart([NoUnit EXCEPT !.sensor_id = sid], 0)
    /\ log = <<>>
    /\ ChunkIdle
    /\ LocIdle
    /\ MainIdle

\* requests.get and the checks of the response, up to the first yield
PagingRequest ==
    /\ pc = "fetch"
    /\ \E resp \in EndlessResponses :
        /\ fetchResps' = <<resp>>
        /\ IF fetch_outcome(resp.status) = "raise"
           THEN pc' = "fetch_raised" /\ UNCHANGED <<results, ri>>
           ELSE IF fetch_outcome(resp.status) = "return"
           THEN pc' = "fetch_returned" /\ UNCHANGED <<results, ri>>
           ELSE IF resp.results = <<>>
           THEN pc' = "fetch_returned" /\ UNCHANGED <<results, ri>>
           ELSE pc' = "fetch_yield" /\ results' = resp.results /\ ri' = 1
    /\ UNCHANGED <<unit, page, emitted, recsLeft, log, chunkVars, locVars,
                   mainVars, outVars>>

\* yield rec, and after the last record of the page the test for the
\* last page, page += 1 and the sleep
PagingYield ==
    /\ pc = "fetch_yield"
    /\ IF ri < Len(results)
       THEN ri' = ri + 1 /\ pc' = pc /\ UNCHANGED page
       ELSE /\ UNCHANGED ri
            /\ IF fetch_last_page(results)
               THEN pc' = "fetch_returned" /\ UNCHANGED page
               ELSE page' = Min(page + 1, MaxPage) /\ pc' = "fetch"
    /\ UNCHANGED <<unit, results, emitted, fetchResps, recsLeft, log, chunkVars,
                   locVars, mainVars, outVars>>

PagingNext == PagingRequest \/ PagingYield

PagingSpec == PagingInit /\ [][PagingNext]_vars /\ WF_vars(PagingNext)

\* --------------------------------------------- safe_extract on its own
\* safe_extract is called with a record: any of RawRecords.
ExtractInit ==
    /\ pc = "extract"
    /\ unit = NoUnit
    /\ page = 1
    /\ \E rec \in RawRecords : results = <<rec>>
    /\ ri = 1
    /\ emitted = <<>>
    /\ fetchResps = <<>>
    /\ recsLeft = 0
    /\ log = <<>>
    /\ ChunkIdle
    /\ LocIdle
    /\ MainIdle

\* norm = safe_extract(rec): rows holds the row it returned, if it did.
Extract ==
    /\ pc = "extract"
    /\ pc' = IF safe_extract(results[ri]).kind = "row" THEN "extracted"
             ELSE IF safe_extract(results[ri]).kind = "None" THEN "extract_none"
             ELSE "extract_raised"
    /\ rows' = IF safe_extract(results[ri]).kind = "row"
               THEN <<safe_extract(results[ri]).row>>
               ELSE <<>>
    /\ UNCHANGED <<chunkVars, locVars, fetchVars, log, mainVars, ndjson,
                   ndjson_fh, csv>>

ExtractNext == Extract

ExtractSpec == ExtractInit /\ [][ExtractNext]_vars /\ WF_vars(ExtractNext)

\* ------------------- the resolution of the parameter name, on its own
\* main is at a well-formed record of a sensor whose descriptor holds any
\* of ParamDescs under "parameter".
ParamInit ==
    /\ pc = "param"
    /\ now = Now
    /\ streaming = FALSE
    /\ locPage = 1
    /\ all_locs = <<[isdict |-> TRUE, id |-> 1, name |-> 1]>>
    /\ locResps = <<[status |-> "ok", results |-> all_locs]>>
    /\ locsLeft = 0
    /\ log = <<>>
    /\ li = 1
    /\ emb = [kind |-> "list", len |-> 1]
    /\ nsensors = 1
    /\ si = 1
    /\ \E i \in SensorIds, pd \in ParamDescs :
        sensor = [isdict |-> TRUE, id |-> i, parameter |-> pd]
    /\ resolved = <<[fallback |-> FALSE, failed |-> FALSE, n |-> 1]>>
    /\ ChunkIdle
    /\ unit = NoUnit
    /\ page = 1
    /\ results = <<OkRec>>
    /\ ri = 1
    /\ emitted = <<>>
    /\ fetchResps = <<>>
    /\ recsLeft = 0
    /\ rows = <<>>
    /\ ndjson = <<>>
    /\ ndjson_fh = "none"
    /\ csv = FALSE

\* the resolution of sensor_param_name and the row built with it
ParamRow ==
    /\ pc = "param"
    /\ rows' = rows_append(rows, OutRow)
    /\ pc' = "param_done"
    /\ UNCHANGED <<chunkVars, locVars, fetchVars, log, mainVars, ndjson,
                   ndjson_fh, csv>>

ParamNext == ParamRow

ParamSpec == ParamInit /\ [][ParamNext]_vars /\ WF_vars(ParamNext)

\* ------------------------- the drain of one fetch by main, on its own
\* main enters the try around the for loop over the fetcher, for the first
\* chunk of the first sensor of the second of two locations; an earlier
\* unit has left a row in the output, or none.
DrainInit ==
    /\ pc = "request"
    /\ now = Now
    /\ streaming \in BOOLEAN
    /\ locPage = 1
    /\ all_locs = <<[isdict |-> TRUE, id |-> 1, name |-> 1],
                    [isdict |-> TRUE, id |-> 2, name |-> 2]>>
    /\ locResps = <<[status |-> "ok", results |-> all_locs]>>
    /\ locsLeft = 0
    /\ log = <<Req("locations", 0, 0, 0, 0, 1)>>
    /\ li = 2
    /\ emb = [kind |-> "list", len |-> 1]
    /\ nsensors = 1
    /\ si = 1
    /\ sensor \in {d \in SensorDescs : d.isdict}
    /\ resolved = <<[fallback |-> FALSE, failed |-> FALSE, n |-> 1],
                    [fallback |-> FALSE, failed |-> FALSE, n |-> 1]>>
    /\ start_dt = now - timedelta(LookbackDays)
    /\ end_dt = now
    /\ days = CHUNK_DAYS
    /\ cur = chunk_nxt(start_dt, end_dt, days)
    /\ chunks = <<<<iso_dt(start_dt), iso_dt(cur)>>>>
    /\ FetchStart([li |-> 2, si |-> 1, ci |-> 1, loc_id |-> 2,
                   sensor_id |-> sensor.id, d_from |-> chunks[1][1],
                   d_to |-> chunks[1][2]], MaxRecs)
    /\ \E earlier \in {<<>>, <<out_row(all_locs[1], sensor, safe_extract(OkRec).row)>>} :
        /\ rows = IF streaming THEN <<>> ELSE earlier
        /\ ndjson = IF streaming THEN earlier ELSE <<>>
    /\ ndjson_fh = IF streaming THEN "open" ELSE "none"
    /\ csv = FALSE

DrainNext == Request \/ FetchExcept \/ Record

DrainSpec == DrainInit /\ [][DrainNext]_vars /\ WF_vars(DrainNext)

\* ------------------------------------------------- claims on chunk_ranges
ChunkDone == pc = "chunks_done"
ChunkStart(i) == chunks[i][1]
ChunkEnd(i) == chunks[i][2]

\* Each chunk ends where the next one starts.
Contiguous == \A i \in 1 .. Len(chunks) - 1 : ChunkEnd(i) = ChunkStart(i + 1)

\* No chunk is longer than days days.
WithinSize ==
    \A i \in 1 .. Len(chunks) :
        Instant(ChunkEnd(i)) - Instant(ChunkStart(i)) <= timedelta(days)

StartsIncrease ==
    \A i \in 1 .. Len(chunks) - 1 : ChunkStart(i) < ChunkStart(i + 1)

\* C1 as stated, for the chunk sizes that are sizes (at least one day): for
\* start < end the pairs tile [start, end) exactly: the first chunk_start is
\* start, each chunk_end is the next chunk_start, the last chunk_end is end,
\* no chunk is longer than the chunk size.
C1_TilesExactly ==
    (start_dt < end_dt /\ days >= 1) =>
        /\ chunks # <<>> => Instant(ChunkStart(1)) = start_dt
        /\ Contiguous
        /\ WithinSize
        /\ ChunkDone => chunks # <<>> /\ Instant(ChunkEnd(Len(chunks))) = end_dt

\* C1 amended: for start < end and a chunk size of at least one day, the
\* pairs tile the window to whole seconds: the first chunk_start is
\* iso_dt(start), each chunk_end is the next chunk_start, the last chunk_end
\* is iso_dt(end), chunk_start <= chunk_end and no chunk is longer than the
\* chunk size.
C1_TilesToTheSecond ==
    (start_dt < end_dt /\ days >= 1) =>
        /\ chunks # <<>> => ChunkStart(1) = iso_dt(start_dt)
        /\ Contiguous
        /\ WithinSize
        /\ \A i \in 1 .. Len(chunks) : ChunkStart(i) <= ChunkEnd(i)
        /\ ChunkDone => chunks # <<>> /\ ChunkEnd(Len(chunks)) = iso_dt(end_dt)

\* A finished run over a window that starts and ends between two seconds,
\* with a full chunk followed by a truncated one.
C1_Witness ==
    /\ ChunkDone
    /\ days >= 1
    /\ Len(chunks) >= 2
    /\ Instant(iso_dt(start_dt)) # start_dt
    /\ Instant(iso_dt(end_dt)) # end_dt
    /\ Instant(ChunkEnd(Len(chunks))) - Instant(ChunkStart(Len(chunks))) < timedelta(days)

\* C2 as stated: for start < end and every integer number of days that
\* chunk_ranges accepts, the chunk_start values are strictly increasing and
\* the generator terminates.
C2_IncreasingAndTerminatesAnyDays ==
    /\ [](start_dt < end_dt => StartsIncrease)
    /\ [](start_dt < end_dt => <>ChunkDone)

\* C2 amended: for start < end and a chunk size of at least one day, the
\* chunk_start values are strictly increasing, at most end - start chunks
\* are emitted, and the generator terminates once cur reaches end.
C2_IncreasingAndTerminates ==
    /\ []((start_dt < end_dt /\ days >= 1) =>
            /\ StartsIncrease
            /\ Len(chunks) <= end_dt - start_dt
            /\ ChunkDone => cur = end_dt)
    /\ []((start_dt < end_dt /\ days >= 1) => <>ChunkDone)

\* A finished run of three chunks of one day.
C2_Witness ==
    /\ ChunkDone
    /\ start_dt < end_dt
    /\ days = 1
    /\ Len(chunks) >= 3

\* C3: for start >= end and any chunk size, no chunk is emitted.
C3_DegenerateEmpty == start_dt >= end_dt => chunks = <<>>

\* The generator has returned on a degenerate window, start = end included.
C3_Witness ==
    /\ ChunkDone
    /\ start_dt = end_dt
    /\ days >= 1
    /\ chunks = <<>>

\* ----------------------------------------------- claims on find_locations
LocReturned == pc = "locs_returned"

\* The page numbers of the location page requests, in the order issued.
LocPagesRequested ==
    LET gets == SelectSeq(log, LAMBDA e : e.ev = "get" /\ e.ep = "locations")
    IN  [i \in 1 .. Len(gets) |-> gets[i].page]

\* The i-th location of a service that holds distinct locations 1, 2, ...
ServerLoc(i) == [isdict |-> TRUE, id |-> i, name |-> i]

\* Page p of a service that holds n locations and serves them LocLimit to
\* the page until they are exhausted.
ServerPage(n, p) ==
    LET first == (p - 1) * LocLimit
        count == IF n - first <= 0 THEN 0 ELSE Min(LocLimit, n - first)
    IN  [status |-> "ok", results |-> [i \in 1 .. count |-> ServerLoc(first + i)]]

\* The service has answered every request so far as one holding n locations.
ServedInFull(n) == \A p \in 1 .. Len(locResps) : locResps[p] = ServerPage(n, p)

\* The results of the first k responses, concatenated.
RECURSIVE PagesConcat(_)
PagesConcat(k) ==
    IF k = 0 THEN <<>> ELSE PagesConcat(k - 1) \o locResps[k].results

\* C8: against a service that holds N locations and serves them in full
\* pages of L, find_locations requests pages 1, 2, ... in order, stops after
\* the first page of fewer than L results (page N div L + 1), never raises,
\* and returns the N locations in page order.
C8_FullPagesAllLocations ==
    \A n \in 0 .. MaxLocId :
        ServedInFull(n) =>
            /\ LocPagesRequested = [i \in 1 .. Len(locResps) |-> i]
            /\ Len(locResps) <= (n \div LocLimit) + 1
            /\ pc # "locs_raised"
            /\ pc = "locs" => Len(locResps) <= n \div LocLimit
            /\ LocReturned =>
                /\ Len(locResps) = (n \div LocLimit) + 1
                /\ all_locs = [i \in 1 .. n |-> ServerLoc(i)]

\* find_locations has returned from a service holding one full page and a
\* shorter one (the 150 / 100 scenario): two requests, every location.
C8_Witness ==
    /\ LocReturned
    /\ \E n \in 0 .. MaxLocId :
        /\ n > LocLimit
        /\ n < 2 * LocLimit
        /\ ServedInFull(n)
        /\ Len(all_locs) = n
    /\ Len(locResps) = 2

NoDuplicates(locs) ==
    \A i, j \in 1 .. Len(locs) : (i # j /\ locs[i].isdict) => locs[i] # locs[j]

\* C9 as stated: the collection find_locations returns holds no location
\* identifier twice, also when a location appears on two pages (each page
\* being free of duplicates in itself).
C9_Deduplicated ==
    (LocReturned /\ \A p \in 1 .. Len(locResps) : NoDuplicates(locResps[p].results))
        => NoDuplicates(all_locs)

\* C9 amended: the collection find_locations returns is the concatenation,
\* in page order, of the results of the pages it fetched; nothing is dropped
\* and nothing is deduplicated, so a location occurs in it as often as it
\* occurs on those pages.
C9_ConcatenationOfPages == all_locs = PagesConcat(Len(locResps))

\* find_locations has returned a list in which a location of page 1 occurs
\* again from page 2.
C9_Witness ==
    /\ LocReturned
    /\ Len(locResps) >= 2
    /\ \E i \in 1 .. Len(locResps[1].results), j \in 1 .. Len(locResps[2].results) :
        /\ locResps[1].results[i].isdict
        /\ locResps[1].results[i] = locResps[2].results[j]
    /\ ~NoDuplicates(all_locs)

\* -------------------------------- claims on fetch_sensor_measurements
FetchReturned == pc = "fetch_returned"
FetchRaised == pc = "fetch_raised"

\* The page numbers of the measurement page requests, in the order issued.
FetchPagesRequested ==
    LET gets == SelectSeq(log, LAMBDA e : e.ev = "get" /\ e.ep = "measurements")
    IN  [i \in 1 .. Len(gets) |-> gets[i].page]

\* The records of the first k responses of the current call, concatenated.
RECURSIVE RecsConcat(_)
RecsConcat(k) ==
    IF k = 0 THEN <<>> ELSE RecsConcat(k - 1) \o fetchResps[k].results

IsPrefix(s, t) == Len(s) <= Len(t) /\ \A i \in 1 .. Len(s) : s[i] = t[i]

AllSuccess == \A i \in 1 .. Len(fetchResps) : fetchResps[i].status = "200"

\* C5: in a call whose responses are all successes, the pages requested are
\* 1, 2, ..., k in order, k being the first page of fewer than PAGE_LIMIT
\* records (zero included); nothing is requested after page k, and the
\* records emitted are those of pages 1..k in page order.
C5_PagesUntilShortPage ==
    AllSuccess =>
        /\ FetchPagesRequested = [i \in 1 .. Len(fetchResps) |-> i]
        /\ \A i \in 1 .. Len(fetchResps) - 1 :
            Len(fetchResps[i].results) = PAGE_LIMIT
        /\ ~FetchRaised
        /\ IsPrefix(emitted, RecsConcat(Len(fetchResps)))
        /\ (pc = "fetch" /\ fetchResps # <<>>) =>
            /\ Len(fetchResps[Len(fetchResps)].results) = PAGE_LIMIT
            /\ emitted = RecsConcat(Len(fetchResps))
        /\ FetchReturned =>
            /\ Len(fetchResps[Len(fetchResps)].results) < PAGE_LIMIT
            /\ emitted = RecsConcat(Len(fetchResps))

\* The call has returned after a first page of exactly PAGE_LIMIT records
\* and an empty second page: two requests, the records of page 1 emitted.
C5_Witness ==
    /\ FetchReturned
    /\ AllSuccess
    /\ Len(fetchResps) = 2
    /\ Len(fetchResps[1].results) = PAGE_LIMIT
    /\ fetchResps[2].results = <<>>
    /\ FetchPagesRequested = <<1, 2>>
    /\ emitted = fetchResps[1].results

Has404 == \E i \in 1 .. Len(fetchResps) : fetchResps[i].status = "404"

\* C6 as stated: once a page request is answered with 404, on page 1 or on
\* a later page, the sequence ends without raising and holds no record.
C6_NotFoundYieldsNothing ==
    Has404 => (FetchReturned /\ emitted = <<>>)

\* C6 amended: once a page request is answered with 404, the sequence ends
\* without raising and with no further request; no record is emitted for
\* that page or after it, so the sequence holds exactly the records of the
\* pages before it: none when the 404 answers page 1.
C6_NotFoundEndsSequence ==
    \A i \in 1 .. Len(fetchResps) :
        fetchResps[i].status = "404" =>
            /\ i = Len(fetchResps)
            /\ FetchReturned
            /\ emitted = RecsConcat(i - 1)
            /\ i = 1 => emitted = <<>>

\* A 404 has answered page 2 after a full page 1 whose records were emitted.
C6_Witness ==
    /\ FetchReturned
    /\ Len(fetchResps) = 2
    /\ fetchResps[2].status = "404"
    /\ Len(emitted) = PAGE_LIMIT

\* ---------------------------------------------------------- claims on main
\* The chunks of main's window: LookbackDays in chunks of CHUNK_DAYS.
NumChunks == (LookbackDays + CHUNK_DAYS - 1) \div CHUNK_DAYS

\* Page p of the measurements of the unit (l, k, c) has been requested.
Requested(l, k, c, p) ==
    \E i \in 1 .. Len(log) : log[i] = Req("measurements", l, k, c, 0, p)

\* Every unit that main has passed or entered has had its page 1 requested.
PassedUnitsRequested ==
    /\ \A l \in 1 .. Len(resolved) :
        \A k \in 1 .. resolved[l].n, c \in 1 .. NumChunks :
            (l < li \/ (l = li /\ k < si)) => Requested(l, k, c, 1)
    /\ pc \in {"record", "fetch_except", "chunk"} =>
        \A c \in 1 .. Len(chunks) : Requested(li, si, c, 1)

\* Every unit of the run has had its page 1 requested.
AllUnitsRequested ==
    /\ Len(resolved) = Len(all_locs)
    /\ \A l \in 1 .. Len(all_locs) :
        \A k \in 1 .. resolved[l].n, c \in 1 .. NumChunks :
            Requested(l, k, c, 1)

RequestKey(e) == <<e.ep, e.li, e.si, e.ci, e.page>>

\* No two requests of the run are the same request.
NoRequestTwice ==
    \A i, j \in 1 .. Len(log) :
        (i < j /\ log[i].ev = "get" /\ log[j].ev = "get") =>
            RequestKey(log[i]) # RequestKey(log[j])

\* Request e is for an earlier (location, sensor, chunk) unit than f, or
\* for an earlier page of the same unit.
RequestBefore(e, f) ==
    \/ e.li < f.li
    \/ e.li = f.li /\ e.si < f.si
    \/ e.li = f.li /\ e.si = f.si /\ e.ci < f.ci
    \/ e.li = f.li /\ e.si = f.si /\ e.ci = f.ci /\ e.page < f.page

\* The measurement requests are issued unit after unit, page after page.
MeasurementsInOrder ==
    \A i, j \in 1 .. Len(log) :
        (i < j /\ log[i].ep = "measurements" /\ log[j].ep = "measurements") =>
            RequestBefore(log[i], log[j])

\* The last response of the current fetch has a status other than 200.
NonSuccessStatus ==
    /\ fetchResps # <<>>
    /\ fetchResps[Len(fetchResps)].status \in {"404", "500"}

\* After such a response the fetcher has ended without raising (main is
\* back at its chunk loop, not in its except clause) and the request it
\* answered is the last one issued.
NonSuccessEnds ==
    NonSuccessStatus =>
        /\ pc = "chunk"
        /\ page = Len(fetchResps)
        /\ log[Len(log)] = Req("measurements", unit.li, unit.si, unit.ci, 0, page)

\* From the chunk loop nothing is requested, and the fetch that starts
\* there is for another unit, from page 1.
UnitLeft ==
    pc = "chunk" =>
        /\ log' = log
        /\ pc' = "request" =>
            /\ <<unit'.li, unit'.si, unit'.ci>> # <<unit.li, unit.si, unit.ci>>
            /\ page' = 1

NoSensorsEmbedded(v) == v.kind # "list" \/ v.len = 0

\* The fallback lookup of location l has been requested.
FallbackRequested(l) ==
    \E i \in 1 .. Len(log) : log[i].ep = "sensors" /\ log[i].li = l

\* Leaving the head of the location loop, main goes to the fallback
\* request exactly when the embedded list is absent or empty.
FallbackIffNoSensors ==
    (pc = "loc" /\ pc' \in {"fallback", "sensor"}) =>
        ((pc' = "fallback") <=> NoSensorsEmbedded(emb'))

\* The fallback request is what main issues at "fallback", nowhere else.
FallbackIssued ==
    /\ pc = "fallback" =>
        log' = Append(log, Req("sensors", li, 0, 0, all_locs[li].id, 0))
    /\ (Len(log') > Len(log) /\ log'[Len(log')].ep = "sensors") =>
        pc = "fallback"

\* A location whose fallback request failed has zero sensors and no
\* measurement request.
FailedFallbackNoSensors ==
    \A l \in 1 .. Len(resolved) :
        /\ resolved[l].fallback <=> FallbackRequested(l)
        /\ resolved[l].failed =>
            /\ resolved[l].n = 0
            /\ \A i \in 1 .. Len(log) :
                log[i].ep = "measurements" => log[i].li # l

\* At the end of the run every location after one whose fallback failed
\* has had its sensors resolved and its units requested.
LaterLocationsProcessed ==
    \A l \in 1 .. Len(resolved) :
        resolved[l].failed =>
            /\ Len(resolved) = Len(all_locs)
            /\ \A m \in l + 1 .. Len(all_locs) :
                \A k \in 1 .. resolved[m].n, c \in 1 .. NumChunks :
                    Requested(m, k, c, 1)

Output == rows \o ndjson

\* safe_extract makes a row of the record.
WellFormed(rec) == safe_extract(rec).kind = "row"

\* The last rows of the output are the rows of the well-formed records the
\* current fetch has yielded so far, in order, one row each; the malformed
\* and the empty ones have none.
RowsOfYielded ==
    LET w == SelectSeq(emitted, WellFormed)
    IN  /\ Len(Output) >= Len(w)
        /\ \A i \in 1 .. Len(w) :
            Output[Len(Output) - Len(w) + i] = out_row(all_locs[li], sensor,
                                                       safe_extract(w[i]).row)
        /\ \A i \in 1 .. Len(Output) : WellFormed(Output[i].raw)

\* Whenever main is between two pages or has left the fetch, every record
\* of every page received has been yielded and processed: nothing but the
\* end of the pages ends the batch.
BatchDrained ==
    pc \in {"request", "fetch_except", "chunk"} =>
        emitted = RecsConcat(Len(fetchResps))

\* C11: a malformed or empty record never ends the processing of its
\* batch: it gives no row, and every well-formed record of the same fetch,
\* on the same page and on later pages, gives its row.
C11_RecordErrorsContained == RowsOfYielded /\ BatchDrained

\* A fetch has ended whose first page held a record that is no object and
\* then a well-formed one, and whose second page held a well-formed one:
\* two rows.
C11_Witness ==
    /\ pc = "chunk"
    /\ Len(fetchResps) = 2
    /\ fetchResps[1].results = <<ScalarRec, OkRec>>
    /\ fetchResps[2].results = <<OkRec>>
    /\ Len(Output) = 2
    /\ Output[1].raw = OkRec

\* The run is over: main has returned, or an exception has left it.
RunEnded == pc \in {"done", "crashed_discovery", "crashed_descriptor"}

\* In buffered mode with no row collected, no output file is written.
NoRowsNoFile == (~streaming /\ rows = <<>>) => (~csv /\ ndjson_fh = "none")

\* C12 as stated: at the end of every run, in buffered mode with zero rows
\* no output file is written, and in streaming mode the NDJSON file exists,
\* possibly empty, whatever the service answered, also when location
\* discovery fails.
C12_StreamFileAlways ==
    RunEnded =>
        /\ NoRowsNoFile
        /\ streaming => ndjson_fh # "none"

\* C12 amended: at the end of every run, in buffered mode with zero rows no
\* output file is written; in streaming mode the NDJSON file has been
\* opened (created if missing, possibly left empty) in every run whose
\* location discovery succeeded; when location discovery fails the run
\* ends before the file is opened and writes no file.
C12_StreamFileOnceDiscovered ==
    RunEnded =>
        /\ NoRowsNoFile
        /\ (streaming /\ pc # "crashed_discovery") => ndjson_fh # "none"
        /\ pc = "crashed_discovery" => (ndjson_fh = "none" /\ ~csv)

\* A streaming run has ended in which every measurement request failed or
\* came back empty: the file was opened and closed with no line in it.
C12_Witness ==
    /\ pc = "done"
    /\ streaming
    /\ ndjson_fh = "closed"
    /\ ndjson = <<>>
    /\ \E i \in 1 .. Len(log) : log[i].ep = "measurements"

\* The mode is fixed, each sink stays empty in the other mode, and no
\* tabular file is written when streaming.
OneSinkOnly ==
    /\ streaming => (rows = <<>> /\ ~csv)
    /\ ~streaming => (ndjson = <<>> /\ ndjson_fh = "none")

\* A row is output when its record is normalized, to the sink of the mode,
\* as one row or line; nothing else touches the sinks or the mode.
RowToItsSink ==
    /\ streaming' = streaming
    /\ (pc = "record" /\ WellFormed(results[ri])) =>
        IF streaming
        THEN ndjson' = Append(ndjson, OutRow) /\ rows' = rows
        ELSE rows' = Append(rows, OutRow) /\ ndjson' = ndjson
    /\ ~(pc = "record" /\ WellFormed(results[ri])) =>
        (rows' = rows /\ ndjson' = ndjson)

\* C13: exactly one output mode is active in a run: when streaming, every
\* normalized row is written as one line when it is normalized, the buffer
\* stays empty and no tabular file is written; when buffering, every
\* normalized row is appended to the buffer and no line is written.  Every
\* row goes to exactly one sink.
C13_OneOutputMode ==
    /\ [](OneSinkOnly)
    /\ [][RowToItsSink]_vars

\* A streaming run has ended with two lines written, an empty buffer and
\* no tabular file.
C13_Witness ==
    /\ pc = "done"
    /\ streaming
    /\ Len(ndjson) = 2
    /\ rows = <<>>
    /\ ~csv

\* C14 as stated: when a location page request fails the run ends with no
\* sensor or measurement request and no row; when discovery succeeds, then
\* whatever the sensor and measurement endpoints do and whatever the
\* descriptors and records hold, no error leaves the loops of main.
C14_NoEscalation ==
    /\ pc = "crashed_discovery" =>
        /\ \A i \in 1 .. Len(log) : log[i].ep \notin {"sensors", "measurements"}
        /\ Output = <<>>
    /\ pc \notin {"crashed_descriptor", "crashed_fallback", "crashed_fetch"}

\* The fetcher has ended its sequence, by return or by an exception.
FetchEnded == pc \in {"fetch_returned", "fetch_raised"}

\* The latest response ends the pagination: an exception, a status other
\* than 200, or fewer than PAGE_LIMIT records.
LastResponseEnds ==
    /\ fetchResps # <<>>
    /\ \/ fetchResps[Len(fetchResps)].status # "200"
       \/ Len(fetchResps[Len(fetchResps)].results) < PAGE_LIMIT

\* C15 as stated: whatever the service answers, as long as each request
\* returns, the fetcher eventually stops requesting pages and ends the
\* sequence.
C15_AlwaysFinite == <>FetchEnded

\* C15 amended: the fetcher ends the sequence once a request raises, is
\* answered with a status other than 200, or returns fewer than PAGE_LIMIT
\* records, and only then: after a page of PAGE_LIMIT records it requests
\* the next page, so against a service that answers every page in full the
\* sequence has no end.
C15_FiniteOnceShortPage ==
    /\ [](FetchEnded => LastResponseEnds)
    /\ []((pc = "fetch" /\ fetchResps # <<>>) => ~LastResponseEnds)
    /\ [](LastResponseEnds => <>FetchEnded)

\* The fetcher has returned on its third page, a short one.
C15_Witness ==
    /\ pc = "fetch_returned"
    /\ page = 3
    /\ fetchResps[1].status = "200"
    /\ Len(fetchResps[1].results) = 1

\* The parameter name that the descriptor of sensor sid gives.
NameOfSensor(sid) ==
    IF ParamOfSensor(sid).kind = "str"
    THEN ParamOfSensor(sid).str
    ELSE ParamOfSensor(sid).name

\* The keys of the row safe_extract returns.
NormKeys == DOMAIN NoRow

\* Whenever the output changes, one row is added to it, while main drains
\* the fetch of its current unit; the row is that of the record the fetch
\* has just yielded, out of its latest page; its four identifying fields
\* are those of the unit and its other fields those safe_extract gave.
RowOfDrainedUnit ==
    Output' # Output =>
        /\ pc = "record"
        /\ unit.li = li /\ unit.si = si /\ unit.ci = Len(chunks)
        /\ log[Len(log)] = Req("measurements", unit.li, unit.si, unit.ci, 0, page)
        /\ results[ri] = fetchResps[Len(fetchResps)].results[ri]
        /\ emitted' = Append(emitted, results[ri])
        /\ \E r \in {Output'[Len(Output')]} :
            /\ Output' = Append(Output, r)
            /\ r.raw = results[ri]
            /\ r.location_id = unit.loc_id
            /\ r.location_id = all_locs[unit.li].id
            /\ r.location_name = all_locs[unit.li].name
            /\ r.sensor_id = unit.sensor_id
            /\ r.sensor_parameter = NameOfSensor(unit.sensor_id)
            /\ \A k \in NormKeys : r[k] = safe_extract(results[ri]).row[k]

\* C16: every output row is traceable to exactly one (location, sensor,
\* chunk) unit: it is emitted only while that unit's fetch is drained, from
\* a record that fetch yielded, and its location_id, location_name,
\* sensor_id and sensor_parameter are those of the unit, not overwritten by
\* fields of the raw record.
C16_RowsTraceable == [][RowOfDrainedUnit]_vars

\* Two rows are out, one of a unit of sensor 1 and one of a unit of
\* sensor 2, each with the parameter name of its sensor.
C16_Witness ==
    /\ Len(Output) = 2
    /\ Output[1].sensor_id = 1
    /\ Output[1].sensor_parameter = "pm25"
    /\ Output[2].sensor_id = 2
    /\ Output[2].sensor_parameter = "pm10"
    /\ Output[1].parameter = "v"

\* -------------------------------------------------- claims on safe_extract
\* The record is an object with at least one key, and what it holds under
\* "coordinates" and "date", if anything, is an object or null.
NonEmptyRecord(rec) ==
    /\ rec.kind = "dict"
    /\ \/ rec.extra
       \/ \E k \in SimpleFields : rec.fields[k] # "absent"
       \/ rec.coordinates.kind # "absent"
       \/ rec.date.kind # "absent"
    /\ rec.coordinates.kind # "scalar"
    /\ rec.date.kind # "scalar"

\* The row holds the value of the field, and None where the record has
\* none (the key is absent or null).
FieldOrNone(v, out) == IF v \in {"absent", "null"} THEN out = "None" ELSE out = v

C18_StringAndObjectAgree ==
    pc = "param_done" =>
        \A p \in Names :
            (\/ sensor.parameter.kind = "str" /\ sensor.parameter.str = p
             \/ sensor.parameter.kind = "dict" /\ sensor.parameter.name = p)
                => rows[1].sensor_parameter = p

\* The row of a sensor whose parameter is an object with a name and
\* another display_name carries the name.
C18_Witness ==
    /\ pc = "param_done"
    /\ sensor.parameter.kind = "dict"
    /\ sensor.parameter.name = "pm25"
    /\ sensor.parameter.display_name = "o3"
    /\ rows[1].sensor_parameter = "pm25"

\* ------------------------------------------------------ claims on the sleeps
\* Two requests of one pagination loop: location pages, or pages of one
\* call of the fetcher.
SameLoop(e, f) ==
    /\ e.ev = "get" /\ f.ev = "get"
    /\ e.ep \in {"locations", "measurements"}
    /\ e.ep = f.ep /\ e.li = f.li /\ e.si = f.si /\ e.ci = f.ci

\* Every request of a page after the first comes right after one sleep,
\* which comes right after the request of the page before it.
SleepBeforeNextPage ==
    \A j \in 1 .. Len(log) :
        (log[j].ev = "get" /\ log[j].page >= 2) =>
            /\ j >= 3
            /\ log[j - 1] = Sleep
            /\ SameLoop(log[j - 2], log[j])
            /\ log[j - 2].page + 1 = log[j].page

\* Every sleep comes right after a request that was answered with a full
\* page, and what follows it is the request of the next page.
SleepOnlyBetweenPages ==
    \A i \in 1 .. Len(log) :
        log[i] = Sleep =>
            /\ i >= 2
            /\ log[i - 1].ev = "get"
            /\ log[i - 1].ep \in {"locations", "measurements"}
            /\ log[i - 1].ep = "locations" =>
                /\ locResps[log[i - 1].page].status = "ok"
                /\ Len(locResps[log[i - 1].page].results) = LocLimit
            /\ i < Len(log) =>
                /\ SameLoop(log[i - 1], log[i + 1])
                /\ log[i + 1].page = log[i - 1].page + 1
            /\ i = Len(log) =>
                /\ pc \in {"discover", "request"}
                /\ pc = "request" =>
                    /\ log[i - 1] = Req("measurements", unit.li, unit.si, unit.ci,
                                        0, page - 1)
                    /\ fetchResps[page - 1].status = "200"
                    /\ Len(fetchResps[page - 1].results) = PAGE_LIMIT

\* C19: within one pagination loop (find_locations, or one call of the
\* fetcher) the request of page n+1 is preceded by exactly one sleep, which
\* follows the successful response to page n; no sleep follows the last
\* page of the loop.
C19_SleepBetweenPages == SleepBeforeNextPage /\ SleepOnlyBetweenPages

\* The run has ended; find_locations slept between its two pages and a
\* fetch slept between its two pages.
C19_Witness ==
    /\ pc = "done"
    /\ \E i \in 2 .. Len(log) : log[i] = Sleep /\ log[i - 1].ep = "locations"
    /\ \E i \in 2 .. Len(log) : log[i] = Sleep /\ log[i - 1].ep = "measurements"
    /\ log[Len(log)] # Sleep

\* ------------------------------------------------ claims on partial results
\* The fetch of the unit has ended early on a page after the first: its
\* latest request raised or was answered with a status other than 200.
EndedEarlyAfterPage1 ==
    /\ pc \in {"fetch_except", "chunk"}
    /\ Len(fetchResps) >= 2
    /\ fetchResps[Len(fetchResps)].status \in {"exc", "404", "500"}

\* The output is what earlier units left (here at most the one row of the
\* first location), followed by the rows of the well-formed records of
\* the pages before the failed one, in order.
PartialRowsKept ==
    LET w == SelectSeq(RecsConcat(Len(fetchResps) - 1), WellFormed)
        before == Len(Output) - Len(w)
    IN  /\ before \in {0, 1}
        /\ before = 1 =>
            Output[1] = out_row(all_locs[1], sensor, safe_extract(OkRec).row)
        /\ \A i \in 1 .. Len(w) :
            Output[before + i] = out_row(all_locs[unit.li], sensor,
                                         safe_extract(w[i]).row)

\* Rows and lines are only added at the end: what is out stays out,
\* unchanged.
OutputOnlyGrows == IsPrefix(rows, rows') /\ IsPrefix(ndjson, ndjson')

\* C20: when page k > 1 of a fetch ends the unit early (404, another
\* status that is not 200, or an exception), the rows output for the
\* records of pages 1..k-1 of the unit stay in the output (buffer or
\* stream) unchanged, and so do the rows of all earlier units.
C20_PartialResultsKept ==
    /\ [](EndedEarlyAfterPage1 => PartialRowsKept)
    /\ [][OutputOnlyGrows]_vars

\* After the row of an earlier unit and a full first page of well-formed
\* records, the request of page 2 has raised: three rows are out.
C20_Witness ==
    /\ pc = "chunk"
    /\ Len(fetchResps) = 2
    /\ fetchResps[1].results = <<OkRec, OkRec>>
    /\ fetchResps[2].status = "exc"
    /\ Len(Output) = 3
    /\ Output[1].location_id = 1
    /\ Output[3].location_id = 2

=============================================================================
